---- MODULE Spec2Model ----
(***************************************************************************)
(* Model of include/print_ip.hpp: the print_ip overload set.               *)
(*                                                                         *)
(* Text is a sequence of character codes (0..255), std::cout is the        *)
(* variable sink.  A static type is a record [shape, of]: a scalar type    *)
(* has shape "scalar" and of = <<T>>, std::vector<E> / std::list<E> have   *)
(* of = <<E>>, std::tuple<Ts...> has of = <<Ts...>>.                       *)
(*                                                                         *)
(* TLC's integers are 32 bits wide, so the value of an integral object is  *)
(* written in base 2^16, most significant limb first; the first limb       *)
(* carries the sign of a signed type (v = l1*65536^(n-1) + ... + ln with   *)
(* l2..ln in 0..65535).  One- and two-byte types have a single limb, the   *)
(* value itself.                                                           *)
(***************************************************************************)
EXTENDS Integers, Sequences, FiniteSets

VARIABLES sink, calls

vars == <<sink, calls>>

\* Largest std::string / container length drawn as an input.
MaxLen == 3
\* Largest std::tuple arity drawn as an input.
MaxArity == 3
\* Number of successive print_ip calls in the call-sequence specification.
MaxCalls == 2

\* '.' and '\n' as written by the formatters.
Dot == 46
NL == 10

-----------------------------------------------------------------------------
(* Static types *)

IntTypes == {"i8", "u8", "i16", "u16", "i32", "u32", "i64", "u64"}

\* The other scalar types of the model are "bool", "string" (std::string),
\* "cstr" (const char*, the type a string literal decays to) and "double".

\* sizeof(T) for the integral types (bool, which no overload accepts, has size 1).
SizeOf(T) ==
    CASE T \in {"i8", "u8", "bool"} -> 1
      [] T \in {"i16", "u16"} -> 2
      [] T \in {"i32", "u32"} -> 4
      [] T \in {"i64", "u64"} -> 8

IsSigned(T) == T \in {"i8", "i16", "i32", "i64"}

Scalar(T) == [shape |-> "scalar", of |-> <<T>>]
VectorOf(E) == [shape |-> "vector", of |-> <<E>>]
ListOf(E) == [shape |-> "list", of |-> <<E>>]
TupleOf(Ts) == [shape |-> "tuple", of |-> Ts]

\* std::is_integral_v<T>
is_integral_v(ty) == ty.shape = "scalar" /\ ty.of[1] \in IntTypes \cup {"bool"}

\* is_vector_v<C>, is_list_v<C>
is_vector_v(ty) == ty.shape = "vector"
is_list_v(ty) == ty.shape = "list"

\* are_same<Ts...>: the primary template is true (zero or one type); the partial
\* specialisation <T, U, R...> is is_same<T, U> && are_same<U, R...>.
RECURSIVE are_same(_)
\* (variant: the recursion continues with are_same<R...>, dropping U)
are_sameSkip(Ts) ==
    IF Len(Ts) < 2 THEN TRUE
    ELSE Ts[1] = Ts[2] /\ are_same(Tail(Tail(Ts)))
are_same(Ts) ==
    IF Len(Ts) < 2 THEN TRUE
    ELSE Ts[1] = Ts[2] /\ are_same(Tail(Ts))

are_same_v(Ts) == are_same(Ts)

-----------------------------------------------------------------------------
(* Overload resolution *)

\* template <class T, enable_if_t<is_integral_v<T> && !is_same_v<T, bool>>>
\* (variant: without the bool exclusion)
IntegralEnabledWithBool(ty) == is_integral_v(ty)
IntegralEnabled(ty) == is_integral_v(ty) /\ ty.of[1] # "bool"

\* void print_ip(const std::string&) is no template: it is viable for every
\* argument that converts implicitly to std::string, which a character
\* pointer does through std::string's converting constructor.
\* (variant: only std::string itself, as a constrained template would accept)
StringViableExact(ty) == ty.shape = "scalar" /\ ty.of[1] = "string"
StringViable(ty) == ty.shape = "scalar" /\ ty.of[1] \in {"string", "cstr"}

\* template <class C, enable_if_t<is_vector_v<C> || is_list_v<C>>>
ContainerEnabled(ty) == is_vector_v(ty) \/ is_list_v(ty)

\* template <class... Ts, enable_if_t<(sizeof...(Ts) > 0) && are_same_v<Ts...>>>
\* print_ip(const std::tuple<Ts...>&)
TupleEnabled(ty) == ty.shape = "tuple" /\ (Len(ty.of) > 0 /\ are_same_v(ty.of))

\* the same with the negated condition, = delete
\* (variant: the deleted overload without its enable_if)
TupleDeletedAlways(ty) == ty.shape = "tuple"
TupleDeletedEnabled(ty) == ty.shape = "tuple" /\ ~(Len(ty.of) > 0 /\ are_same_v(ty.of))

Overloads == {"integral", "string", "container", "tuple", "tuple_deleted"}

Enabled(o, ty) ==
    CASE o = "integral" -> IntegralEnabled(ty)
      [] o = "string" -> StringViable(ty)
      [] o = "container" -> ContainerEnabled(ty)
      [] o = "tuple" -> TupleEnabled(ty)
      [] o = "tuple_deleted" -> TupleDeletedEnabled(ty)

Viable(ty) == {o \in Overloads : Enabled(o, ty)}

\* What a call print_ip(x) with x of type ty resolves to: the one viable
\* overload, "none" (no matching function) or "ambiguous"; both, like the
\* selection of the deleted overload, are compile errors.
Resolve(ty) ==
    IF Viable(ty) = {} THEN "none"
    ELSE IF Cardinality(Viable(ty)) = 1 THEN CHOOSE o \in Viable(ty) : TRUE
    ELSE "ambiguous"

-----------------------------------------------------------------------------
(* operator<< of std::ostream *)

\* operator<<(unsigned) / operator<<(int) for n >= 0: the decimal digits.
RECURSIVE ToDecimal(_)
ToDecimal(n) ==
    IF n < 10 THEN <<48 + n>>
    ELSE ToDecimal(n \div 10) \o <<48 + (n % 10)>>

\* The mathematical value of an object of at most 32 bits from its limbs.
RECURSIVE MathVal(_)
MathVal(limbs) ==
    IF Len(limbs) = 1 THEN limbs[1]
    ELSE MathVal(SubSeq(limbs, 1, Len(limbs) - 1)) * 65536 + limbs[Len(limbs)]

\* std::cout << x for an element x of type T: the character types (the 8-bit
\* integer types are signed char / unsigned char) are written as the one raw
\* character, the wider integers in decimal with a '-' when negative, a
\* std::string as its characters.
StreamInsert(T, x) ==
    CASE T \in {"i8", "u8"} -> <<x[1] % 256>>
      [] T \in {"i16", "u16", "i32"} ->
            IF MathVal(x) < 0 THEN <<45>> \o ToDecimal(0 - MathVal(x))
            ELSE ToDecimal(MathVal(x))
      [] T \in {"string", "cstr"} -> x

-----------------------------------------------------------------------------
(* 1) print_ip(T value), integral types *)

Min(a, b) == IF a < b THEN a ELSE b

\* U u = static_cast<U>(value): the value modulo 2^(8 * sizeof(U)); only the
\* most significant limb can be out of the unsigned range.
StaticCastUnsigned(T, value) ==
    [value EXCEPT ![1] = @ % (2 ^ Min(8 * SizeOf(T), 16))]

\* u >> shift on the limbs of u (zero fill).
ShiftRight(u, shift) ==
    LET n == Len(u)
        k == shift \div 16
        r == shift % 16
        L(m) == IF m >= n THEN 0 ELSE u[n - m]
    IN  [p \in 1..n |->
            LET j == n - p
            IN  (L(j + k) \div (2 ^ r)) + (L(j + k + 1) % (2 ^ r)) * (2 ^ (16 - r))]

\* static_cast<unsigned>(x & static_cast<U>(0xFF))
And0xFF(x) == x[Len(x)] % 256

\* std::size_t shift = 8 * (B - 1 - i);
\* (variant: least significant byte first)
ShiftLsbFirst(B, i) == 8 * i
Shift(B, i) == 8 * (B - 1 - i)

\* The body of the for loop, from index i on, appended to acc.
RECURSIVE IntegralLoop(_, _, _, _)
IntegralLoop(u, B, i, acc) ==
    IF i >= B THEN acc
    ELSE LET byte == And0xFF(ShiftRight(u, Shift(B, i)))
             sep == IF i # 0 THEN <<Dot>> ELSE <<>>
         IN  IntegralLoop(u, B, i + 1, acc \o sep \o ToDecimal(byte))

print_ip_integral(T, value) ==
    IntegralLoop(StaticCastUnsigned(T, value), SizeOf(T), 0, <<>>) \o <<NL>>

-----------------------------------------------------------------------------
(* 2) print_ip(const std::string&) *)

\* (variants: no trailing newline; the text split into lines at its '.')
print_ip_stringNoNewline(s) == s
print_ip_stringSplit(s) == [i \in 1..Len(s) |-> IF s[i] = Dot THEN NL ELSE s[i]] \o <<NL>>
print_ip_string(s) == s \o <<NL>>

-----------------------------------------------------------------------------
(* 3) print_ip(const C& cont), 4) detail::print_tuple_impl *)

\* bool first = true; a local of the call.
\* (variant: a static flag, initialised by the first call only)
FirstStatic == calls = <<>>
First == TRUE

\* if (!first) std::cout << '.';
\* (variant: the separator written before every element)
SeparatorAlways(first) == <<Dot>>
Separator(first) == IF ~first THEN <<Dot>> ELSE <<>>

\* The range-for over cont from position i on, with the flag first.
RECURSIVE ContainerLoop(_, _, _, _, _)
ContainerLoop(E, cont, i, first, acc) ==
    IF i > Len(cont) THEN acc
    ELSE ContainerLoop(E, cont, i + 1, FALSE,
                       acc \o Separator(first) \o StreamInsert(E, cont[i]))

print_ip_container(E, cont) == ContainerLoop(E, cont, 1, First, <<>>) \o <<NL>>

\* The fold (print_one(std::get<I>(t)), ...) from index i on; field i has
\* its own type Ts[i].
RECURSIVE TupleFold(_, _, _, _, _)
TupleFold(Ts, t, i, first, acc) ==
    IF i > Len(t) THEN acc
    ELSE TupleFold(Ts, t, i + 1, FALSE,
                   acc \o Separator(first) \o StreamInsert(Ts[i], t[i]))

print_tuple_impl(Ts, t) == TupleFold(Ts, t, 1, First, <<>>) \o <<NL>>

print_ip_tuple(Ts, t) == print_tuple_impl(Ts, t)

-----------------------------------------------------------------------------
(* Inputs *)

SeqsUpTo(S, n) == UNION {[1..k -> S] : k \in 0..n}

\* All values of the one-byte types; for the wider types the limbs are drawn
\* from the values around the byte and sign boundaries.
LowLimbs == {0, 1, 255, 256, 32512, 32768, 65535}
SignedTopLimbs == {-32768, -256, -1, 0, 1, 255, 32512, 32767}
UnsignedTopLimbs == {0, 1, 255, 256, 32512, 32767, 32768, 65535}
MidLimbs == {0, 255, 65535}

TopLimbs(T) == IF IsSigned(T) THEN SignedTopLimbs ELSE UnsignedTopLimbs

IntVals(T) ==
    CASE T = "i8" -> {<<v>> : v \in -128..127}
      [] T = "u8" -> {<<v>> : v \in 0..255}
      [] T \in {"i16", "u16"} -> {<<v>> : v \in TopLimbs(T)}
      [] T \in {"i32", "u32"} -> {<<h, l>> : h \in TopLimbs(T), l \in LowLimbs}
      [] T \in {"i64", "u64"} ->
            {<<h, a, b, l>> : h \in TopLimbs(T), a \in MidLimbs, b \in MidLimbs,
                              l \in LowLimbs}

\* The characters of the drawn strings: 'a', '.', '\n'.
Alphabet == {97, Dot, NL}
Test == <<116, 101, 115, 116>>
Strings == SeqsUpTo(Alphabet, MaxLen) \cup {Test}

ElemTypes == {"u8", "i16", "i32", "string"}
FieldTypes == {"u8", "i32", "string"}

ElemVals(E) ==
    CASE E = "u8" -> {<<0>>, <<1>>, <<10>>, <<255>>}
      [] E = "i16" -> {<<-7>>, <<0>>, <<300>>}
      [] E = "i32" -> {<<0, 100>>, <<0, 200>>, <<-1, 65535>>}
      [] E = "string" -> {<<>>, <<97>>, <<46, 10>>}

Arg(ty, val) == [ty |-> ty, val |-> val]

IntegralArgs == UNION {{Arg(Scalar(T), <<v>>) : v \in IntVals(T)} : T \in IntTypes}

TextArgs == {Arg(Scalar(T), <<s>>) : T \in {"string", "cstr"}, s \in Strings}

\* bool and double: arguments no overload accepts.
OtherArgs == {Arg(Scalar("bool"), <<<<0>>>>), Arg(Scalar("bool"), <<<<1>>>>),
              Arg(Scalar("double"), <<<<0>>>>)}

Ints100to400 == <<<<0, 100>>, <<0, 200>>, <<0, 300>>, <<0, 400>>>>

ContainerArgs ==
    UNION {{Arg(ty, c) : c \in SeqsUpTo(ElemVals(E), MaxLen)} :
           <<ty, E>> \in {<<VectorOf(E), E>> : E \in ElemTypes}
                         \cup {<<ListOf(E), E>> : E \in ElemTypes}}
    \cup {Arg(VectorOf("i32"), Ints100to400), Arg(ListOf("i32"), Ints100to400)}

TypeLists == SeqsUpTo(FieldTypes, MaxArity)

TupleVals(Ts) ==
    {t \in SeqsUpTo(UNION {ElemVals(E) : E \in FieldTypes}, Len(Ts)) :
        Len(t) = Len(Ts) /\ \A i \in 1..Len(Ts) : t[i] \in ElemVals(Ts[i])}

Bytes255_0_0_1 == <<<<255>>, <<0>>, <<0>>, <<1>>>>

TupleArgs ==
    UNION {{Arg(TupleOf(Ts), t) : t \in TupleVals(Ts)} : Ts \in TypeLists}
    \cup {Arg(TupleOf(<<"u8", "u8", "u8", "u8">>), Bytes255_0_0_1)}

Args == IntegralArgs \cup TextArgs \cup OtherArgs \cup ContainerArgs \cup TupleArgs

\* The arguments of the call sequences.
SeqArgs ==
    {Arg(Scalar("i32"), <<<<32512, 1>>>>),
     Arg(Scalar("u8"), <<<<255>>>>),
     Arg(Scalar("string"), <<<<97, 46>>>>),
     Arg(Scalar("cstr"), <<<<97>>>>),
     Arg(Scalar("bool"), <<<<1>>>>),
     Arg(VectorOf("i32"), <<<<0, 100>>, <<0, 200>>>>),
     Arg(ListOf("i32"), <<<<0, 100>>, <<0, 200>>>>),
     Arg(VectorOf("string"), <<>>),
     Arg(TupleOf(<<"i32", "i32">>), <<<<0, 100>>, <<0, 200>>>>),
     Arg(TupleOf(<<"u8", "i32">>), <<<<1>>, <<0, 200>>>>)}

-----------------------------------------------------------------------------
(* The calls *)

Init == sink = <<>> /\ calls = <<>>

\* The call writes text to std::cout.
Emit(a, text, via) ==
    /\ sink' = sink \o text
    /\ calls' = Append(calls, [arg |-> a, text |-> text, via |-> via])

CallIntegral(a) ==
    /\ Resolve(a.ty) = "integral"
    /\ Emit(a, print_ip_integral(a.ty.of[1], a.val[1]), "integral")

CallString(a) ==
    /\ Resolve(a.ty) = "string"
    /\ Emit(a, print_ip_string(a.val[1]), "string")

CallContainer(a) ==
    /\ Resolve(a.ty) = "container"
    /\ Emit(a, print_ip_container(a.ty.of[1], a.val), "container")

CallTuple(a) ==
    /\ Resolve(a.ty) = "tuple"
    /\ Emit(a, print_ip_tuple(a.ty.of, a.val), "tuple")

\* The call does not compile: nothing runs and nothing is written.
Rejected(a) ==
    /\ Resolve(a.ty) \in {"none", "ambiguous", "tuple_deleted"}
    /\ sink' = sink
    /\ calls' = Append(calls, [arg |-> a, text |-> <<>>, via |-> Resolve(a.ty)])

\* One call on the empty sink, with any argument: overload resolution sends
\* it to one of the four formatters or rejects it.
Next ==
    \/ \E a \in Args : calls = <<>> /\ CallIntegral(a)
    \/ \E a \in Args : calls = <<>> /\ CallString(a)
    \/ \E a \in Args : calls = <<>> /\ CallContainer(a)
    \/ \E a \in Args : calls = <<>> /\ CallTuple(a)
    \/ \E a \in Args : calls = <<>> /\ Rejected(a)

Spec == Init /\ [][Next]_vars

\* Up to MaxCalls successive calls on the same sink.
NextSeq ==
    \/ \E a \in SeqArgs : Len(calls) < MaxCalls /\ CallIntegral(a)
    \/ \E a \in SeqArgs : Len(calls) < MaxCalls /\ CallString(a)
    \/ \E a \in SeqArgs : Len(calls) < MaxCalls /\ CallContainer(a)
    \/ \E a \in SeqArgs : Len(calls) < MaxCalls /\ CallTuple(a)
    \/ \E a \in SeqArgs : Len(calls) < MaxCalls /\ Rejected(a)

SpecSeq == Init /\ [][NextSeq]_vars

-----------------------------------------------------------------------------
(* Vocabulary of the properties *)

Last == calls[Len(calls)]

Accepted == {"integral", "string", "container", "tuple"}

Count(c, text) == Cardinality({i \in 1..Len(text) : text[i] = c})

RECURSIVE Split(_, _)
Split(text, c) ==
    IF \A i \in 1..Len(text) : text[i] # c THEN <<text>>
    ELSE LET i == CHOOSE i \in 1..Len(text) :
                      text[i] = c /\ \A j \in 1..(i - 1) : text[j] # c
         IN  <<SubSeq(text, 1, i - 1)>> \o Split(SubSeq(text, i + 1, Len(text)), c)

\* A decimal numeral of at most three digits without a leading zero.
IsDecimal(d) ==
    /\ Len(d) \in 1..3
    /\ \A i \in 1..Len(d) : d[i] \in 48..57
    /\ Len(d) > 1 => d[1] # 48

RECURSIVE FromDecimal(_)
FromDecimal(d) ==
    IF Len(d) = 0 THEN 0
    ELSE FromDecimal(SubSeq(d, 1, Len(d) - 1)) * 10 + (d[Len(d)] - 48)

RECURSIVE Flatten(_)
Flatten(ss) == IF Len(ss) = 0 THEN <<>> ELSE Head(ss) \o Flatten(Tail(ss))

RECURSIVE Sum(_)
Sum(ns) == IF Len(ns) = 0 THEN 0 ELSE Head(ns) + Sum(Tail(ns))

\* Renderings joined by '.': every rendering but the first is preceded by one '.'.
Joined(rs) == Flatten([i \in 1..Len(rs) |-> (IF i = 1 THEN <<>> ELSE <<Dot>>) \o rs[i]])

AllIdentical(Ts) == \A i, j \in 1..Len(Ts) : Ts[i] = Ts[j]

Text127_0_0_1 == <<49, 50, 55, 46, 48, 46, 48, 46, 49, 10>>
Text255x4 == <<50, 53, 53, 46, 50, 53, 53, 46, 50, 53, 53, 46, 50, 53, 53, 10>>
Text255_0_0_1 == <<50, 53, 53, 46, 48, 46, 48, 46, 49, 10>>
Text100to400 == <<49, 48, 48, 46, 50, 48, 48, 46, 51, 48, 48, 46, 52, 48, 48, 10>>
TextTest == <<116, 101, 115, 116, 10>>

-----------------------------------------------------------------------------
(* C1 *)

C1Groups(c) ==
    LET T == c.arg.ty.of[1]
        B == SizeOf(T)
        v == c.arg.val[1]
        text == c.text
        gs == Split(SubSeq(text, 1, Len(text) - 1), Dot)
        g(i) == FromDecimal(gs[i])
    IN  /\ Len(text) >= 1 /\ text[Len(text)] = NL
        /\ Count(NL, text) = 1
        /\ Len(gs) = B
        /\ \A i \in 1..Len(gs) : IsDecimal(gs[i]) /\ g(i) \in 0..255
        /\ Len(gs) = B =>
             IF B = 1 THEN g(1) = v[1] % 256
             ELSE \A p \in 1..Len(v) : g(2 * p - 1) * 256 + g(2 * p) = v[p] % 65536
        /\ (Len(gs) = B /\ B <= 2) =>
             \A i \in 0..(B - 1) :
                g(i + 1) = ((v[1] % (2 ^ (8 * B))) \div (256 ^ (B - 1 - i))) % 256
        /\ (B = 4 /\ v = <<32512, 1>>) => text = Text127_0_0_1
        /\ (T = "i32" /\ v = <<-1, 65535>>) => text = Text255x4

\* C1: print_ip of a B-byte integral value v (B in 1, 2, 4, 8, signed or
\* unsigned) writes exactly B decimal groups in 0..255 joined by single '.'
\* and followed by one '\n'; the groups are the bytes of v mod 2^(8B), most
\* significant first (group 2p-1 and 2p make up the p-th 16-bit limb of
\* v mod 2^(8B)); 0x7F000001 gives "127.0.0.1\n", the 32-bit -1 gives
\* "255.255.255.255\n".
C1_IntegralBytesMsbFirst ==
    \A k \in 1..Len(calls) : IntegralEnabled(calls[k].arg.ty) =>
        calls[k].via = "integral" /\ C1Groups(calls[k])

C1_Witness ==
    /\ calls # <<>>
    /\ Last.arg = Arg(Scalar("i32"), <<<<-1, 65535>>>>)
    /\ Last.via = "integral"
    /\ sink = Text255x4

-----------------------------------------------------------------------------
(* C2 *)

\* C2: for a tuple whose fields all have the 8-bit unsigned type, print_ip
\* writes the decimal value of each field in declaration order, joined by
\* '.', followed by '\n'; the fields 255, 0, 0, 1 give "255.0.0.1\n".
C2_TupleOfBytesDecimal ==
    \A k \in 1..Len(calls) :
        LET c == calls[k]
        IN  (c.arg.ty.shape = "tuple" /\ Len(c.arg.ty.of) >= 1
             /\ \A i \in 1..Len(c.arg.ty.of) : c.arg.ty.of[i] = "u8") =>
                /\ c.via = "tuple"
                /\ c.text = Joined([i \in 1..Len(c.arg.val) |->
                                       ToDecimal(c.arg.val[i][1])]) \o <<NL>>
                /\ c.arg.val = Bytes255_0_0_1 => c.text = Text255_0_0_1

-----------------------------------------------------------------------------
(* C3 *)

\* C3: for a std::tuple of arity >= 1 exactly one of the two tuple overloads
\* is viable and no other overload is: the formatting overload iff all field
\* types are identical, the deleted overload iff some field type differs;
\* the rejected call writes nothing.
C3_TupleAcceptXorReject ==
    \A k \in 1..Len(calls) :
        LET c == calls[k]
        IN  (c.arg.ty.shape = "tuple" /\ Len(c.arg.ty.of) >= 1) =>
                /\ Cardinality(Viable(c.arg.ty)) = 1
                /\ AllIdentical(c.arg.ty.of) <=>
                       (Viable(c.arg.ty) = {"tuple"} /\ c.via = "tuple")
                /\ ~AllIdentical(c.arg.ty.of) <=>
                       (Viable(c.arg.ty) = {"tuple_deleted"} /\ c.via = "tuple_deleted"
                        /\ c.text = <<>>)
                /\ c.via = "tuple_deleted" => sink = <<>>

C3_Witness ==
    /\ calls # <<>>
    /\ Last.arg.ty = TupleOf(<<"i32", "i32", "u8">>)
    /\ Last.via = "tuple_deleted"
    /\ sink = <<>>

-----------------------------------------------------------------------------
(* C4 *)

\* The categories as the specification defines them, from the type alone.
\* textTypes are the scalar types counted as text.
Categories(ty, textTypes) ==
    {cat \in {"integral", "text", "sequence", "tuple_same", "tuple_mixed"} :
        CASE cat = "integral" -> ty.shape = "scalar" /\ ty.of[1] \in IntTypes
          [] cat = "text" -> ty.shape = "scalar" /\ ty.of[1] \in textTypes
          [] cat = "sequence" -> ty.shape \in {"vector", "list"}
          [] cat = "tuple_same" ->
                ty.shape = "tuple" /\ Len(ty.of) >= 1 /\ AllIdentical(ty.of)
          [] cat = "tuple_mixed" ->
                ty.shape = "tuple" /\ ~(Len(ty.of) >= 1 /\ AllIdentical(ty.of))}

OverloadOf(cat) ==
    CASE cat = "integral" -> "integral"
      [] cat = "text" -> "string"
      [] cat = "sequence" -> "container"
      [] cat = "tuple_same" -> "tuple"
      [] cat = "tuple_mixed" -> "tuple_deleted"

ExclusiveCategories(c, textTypes) ==
    LET cats == Categories(c.arg.ty, textTypes)
    IN  /\ Cardinality(Viable(c.arg.ty)) <= 1
        /\ Cardinality(cats) <= 1
        /\ Viable(c.arg.ty) = {OverloadOf(cat) : cat \in cats}
        /\ cats = {} => (c.via = "none" /\ c.text = <<>>)
        /\ c.arg.ty = Scalar("bool") => (cats = {} /\ c.via = "none")

-----------------------------------------------------------------------------
(* C5 *)

-----------------------------------------------------------------------------
(* C6 *)

Renderings(c) == [i \in 1..Len(c.arg.val) |-> StreamInsert(c.arg.ty.of[1], c.arg.val[i])]

\* C6: print_ip of a std::vector or std::list of n >= 0 elements writes the
\* elements' own renderings in iteration order with one '.' between
\* consecutive elements (n - 1 separators, none first or last) and one '\n';
\* an empty sequence writes "\n", [100, 200, 300, 400] writes
\* "100.200.300.400\n", and the output does not depend on the shape.
C6_SequenceJoined ==
    \A k \in 1..Len(calls) :
        LET c == calls[k]
            n == Len(c.arg.val)
            rs == Renderings(c)
        IN  c.arg.ty.shape \in {"vector", "list"} =>
                /\ c.via = "container"
                /\ c.text = Joined(rs) \o <<NL>>
                /\ Len(c.text) =
                       Sum([i \in 1..n |-> Len(rs[i])]) + (IF n >= 1 THEN n - 1 ELSE 0) + 1
                /\ Count(Dot, c.text) =
                       Sum([i \in 1..n |-> Count(Dot, rs[i])]) + (IF n >= 1 THEN n - 1 ELSE 0)
                /\ n = 0 => c.text = <<NL>>
                /\ (c.arg.ty.of[1] = "i32" /\ c.arg.val = Ints100to400) =>
                       c.text = Text100to400

C6_Witness ==
    /\ calls # <<>>
    /\ Last.arg = Arg(ListOf("i32"), Ints100to400)
    /\ Last.via = "container"
    /\ sink = Text100to400

-----------------------------------------------------------------------------
(* C7 *)

\* C7 as stated: the text a call on an accepted category appends holds
\* exactly one newline character, its last character.
C7_Original ==
    \A k \in 1..Len(calls) : calls[k].via \in Accepted =>
        /\ Len(calls[k].text) >= 1
        /\ calls[k].text[Len(calls[k].text)] = NL
        /\ Count(NL, calls[k].text) = 1

\* The newline characters of the value's own content.
ContentNewlines(c) ==
    CASE c.via = "integral" -> 0
      [] c.via = "string" -> Count(NL, c.arg.val[1])
      [] c.via = "container" ->
            Sum([i \in 1..Len(c.arg.val) |->
                    Count(NL, StreamInsert(c.arg.ty.of[1], c.arg.val[i]))])
      [] c.via = "tuple" ->
            Sum([i \in 1..Len(c.arg.val) |->
                    Count(NL, StreamInsert(c.arg.ty.of[i], c.arg.val[i]))])

\* C7, amended: the text a call on an accepted category appends ends with
\* the one '\n' print_ip writes after the content; it holds no other newline
\* character exactly when the content (the string, or the elements' own
\* renderings) holds none, which is always so for an integral value.
C7_OneTrailingNewline ==
    \A k \in 1..Len(calls) : calls[k].via \in Accepted =>
        /\ Len(calls[k].text) >= 1
        /\ calls[k].text[Len(calls[k].text)] = NL
        /\ Count(NL, calls[k].text) = 1 + ContentNewlines(calls[k])
        /\ calls[k].via = "integral" => Count(NL, calls[k].text) = 1

C7_Witness ==
    /\ calls # <<>>
    /\ Last.arg = Arg(Scalar("string"), <<<<97, NL, Dot>>>>)
    /\ Last.via = "string"
    /\ Count(NL, sink) = 2
    /\ sink[Len(sink)] = NL

-----------------------------------------------------------------------------
(* C8 *)

\* C8: print_ip of a std::string s appends exactly s followed by one '\n',
\* no character escaped, dropped, transformed or split, also when s holds
\* '.' or is empty; "test" gives "test\n".
C8_StringVerbatim ==
    \A k \in 1..Len(calls) :
        LET c == calls[k]
            s == c.arg.val[1]
        IN  c.arg.ty = Scalar("string") =>
                /\ c.via = "string"
                /\ Len(c.text) = Len(s) + 1
                /\ \A i \in 1..Len(s) : c.text[i] = s[i]
                /\ c.text[Len(s) + 1] = NL
                /\ s = Test => c.text = TextTest

C8_Witness ==
    /\ calls # <<>>
    /\ Last.arg = Arg(Scalar("string"), <<Test>>)
    /\ Last.via = "string"
    /\ sink = TextTest

-----------------------------------------------------------------------------
(* C9 *)

-----------------------------------------------------------------------------
(* C10 *)

\* C10: for a list of field types of length n >= 1, are_same is a boolean
\* that is true exactly when every type is identical to the first one,
\* equivalently when all are pairwise identical; it is true for every list
\* of length 1.
C10_AreSameIsAllEqualFirst ==
    \A k \in 1..Len(calls) :
        LET Ts == calls[k].arg.ty.of
        IN  (calls[k].arg.ty.shape = "tuple" /\ Len(Ts) >= 1) =>
                /\ are_same(Ts) \in BOOLEAN
                /\ are_same(Ts) <=> \A i \in 1..Len(Ts) : Ts[i] = Ts[1]
                /\ are_same(Ts) <=> AllIdentical(Ts)
                /\ Len(Ts) = 1 => are_same(Ts)

C10_Witness ==
    /\ calls # <<>>
    /\ Last.arg.ty = TupleOf(<<"i32", "i32", "string">>)
    /\ ~are_same(Last.arg.ty.of)
    /\ Last.via = "tuple_deleted"

====
